---- MODULE Spec2Model ----
(***************************************************************************)
(* Group libraries endpoints of seahub                                     *)
(* (seahub/api2/endpoints/group_libraries.py).                             *)
(*                                                                         *)
(* The three handlers GroupLibraries.get, GroupLibraries.post and          *)
(* GroupLibrary.delete are modelled as one action each.  The Repository    *)
(* Service (seafile_api / ccnet_api / seaserv), the ExtraGroupsShare-      *)
(* Permission table, the repo_created signal and the permission audit      *)
(* queue are the state the handlers read and change.  Every handler       *)
(* records the request it served, the service calls it made and the        *)
(* response it produced in the variable response.                          *)
(***************************************************************************)
EXTENDS Integers, Sequences, FiniteSets, TLC

VARIABLES
    group_members,              \* group id -> set of member usernames
    group_admins,               \* group id -> set of admin usernames
    ENABLE_ENCRYPTED_LIBRARY,   \* constance config flag
    repos,                      \* repo id -> repository record (seafile)
    RepoGroup,                  \* global group shares: <<repo, group, perm>>
    OrgGroupRepo,               \* org group shares: <<org, repo, group, perm>>
    ExtraGroupsSharePermission, \* rows <<repo, group>> of the extra table
    repo_admins,                \* <<username, repo>> pairs with a repo-admin grant
    created,                    \* number of repositories created so far
    served,                     \* number of requests served so far
    repo_created,               \* sequence of repo_created signals sent
    perm_audit_msgs,            \* sequence of permission audit messages sent
    response                    \* the request last served and its outcome

vars == <<group_members, group_admins, ENABLE_ENCRYPTED_LIBRARY, repos,
          RepoGroup, OrgGroupRepo, ExtraGroupsSharePermission, repo_admins,
          created, served, repo_created, perm_audit_msgs, response>>

----------------------------------------------------------------------------
(* Bounds of the model *)

\* requests served in one behaviour
MaxRequests == 2

----------------------------------------------------------------------------
(* The universe of requests *)

None == "None"

Users == {"alice", "bob"}
\* groups 1 and 2 exist, group 3 does not
Groups == {1, 2}
GroupIds == {1, 2, 3}
\* the organisation of a user (request.user.org), -1 when there is none
UserOrg == [u \in Users |-> IF u = "bob" THEN 7 ELSE -1]
\* the organisation of a group, -1 for a group of no organisation
GroupOrg == [g \in Groups |-> IF g = 2 THEN 7 ELSE -1]

\* a request field is either absent (has = FALSE) or carries a value
Opt(vals) == {[has |-> FALSE, v |-> CHOOSE x \in vals : TRUE]} \cup
             {[has |-> TRUE, v |-> x] : x \in vals}
\* repo names are sequences of characters
RepoNames == {[has |-> TRUE, v |-> n] : n \in {<<>>, <<"N">>, <<"a", "/">>}}
Passwords == Opt({"secret"})
Permissions == Opt({"r", "admin"})
Field(k, o) == IF o.has THEN k :> o.v ELSE <<>>
\* request.data of a post request
PostData == {Field("repo_name", n) @@ Field("password", p) @@ Field("permission", q) :
                n \in RepoNames, p \in Passwords, q \in Permissions}
\* request.data.get(key, default)
DataGet(data, key, default) == IF key \in DOMAIN data THEN data[key] ELSE default

\* repository ids are opaque strings; the first three exist initially and the
\* following ones are handed out by the service, one per created repository
RepoIdPool == <<"r1", "r2", "r3", "r4", "r5", "r6", "r7", "r8", "r9">>
InitRepoIds == {"r1", "r2", "r3"}
NewRepoId(n) == RepoIdPool[3 + n]
\* the time of the service when it has created n repositories
Clock(n) == 3 + n
\* repo ids a delete request may name; "r0" never exists
RepoIdInputs == {RepoIdPool[i] : i \in 1..4} \cup {"r0"}

----------------------------------------------------------------------------
(* Collaborators of the handlers *)

\* seahub.group.utils.is_group_member
is_group_member(group_id, username) == username \in group_members[group_id]
\* seahub.group.utils.is_group_admin
is_group_admin(group_id, username) == username \in group_admins[group_id]
\* seahub.share.utils.is_repo_admin
is_repo_admin(username, repo_id) == <<username, repo_id>> \in repo_admins
\* seahub.utils.is_org_context: the requesting user belongs to an organisation
is_org_context(username) == UserOrg[username] # -1
\* ccnet_api.is_org_group / ccnet_api.get_org_id_by_group
is_org_group(group_id) == GroupOrg[group_id] # -1
get_org_id_by_group(group_id) == GroupOrg[group_id]
\* seahub.utils.is_valid_dirent_name: no path separator, no null byte
is_valid_dirent_name(name) == \A i \in 1..Len(name) : name[i] \notin {"/", "NUL"}
\* email2nickname / email2contact_email: a display string, never a failure
email2nickname(u) == <<"nick", u>>
email2contact_email(u) == <<"contact", u>>
\* timestamp_to_isoformat_timestr: the timestamp written positionally, most
\* significant field first (here two fields of radix 2)
timestamp_to_isoformat_timestr(ts) == <<ts \div 2, ts % 2>>
\* the order of two formatted timestamps as strings: field by field
IsoGeq(a, b) == a[1] > b[1] \/ (a[1] = b[1] /\ a[2] >= b[2])

\* seafile_api.get_repo: the record, or nothing (<<>>) for None
get_repo(rs, repo_id) == IF repo_id \in DOMAIN rs THEN <<rs[repo_id]>> ELSE <<>>
\* seafile_api.get_repo_owner
get_repo_owner(rs, repo_id) == rs[repo_id].owner

\* the record seafile returns for a repository shared to a group
GroupRepo(repo_id, perm) ==
    [repo_id |-> repo_id, name |-> repos[repo_id].name,
     last_modified |-> repos[repo_id].last_modified, permission |-> perm,
     size |-> repos[repo_id].size, encrypted |-> repos[repo_id].encrypted,
     user |-> repos[repo_id].owner, last_modifier |-> repos[repo_id].last_modifier]

\* all orderings of a finite set of records
RECURSIVE Orderings(_)
Orderings(S) == IF S = {} THEN {<<>>}
                ELSE UNION {{<<x>> \o t : t \in Orderings(S \ {x})} : x \in S}

\* seafile_api.get_repos_by_group: the global shares of the group, in the
\* order the service happens to return them
get_repos_by_group(group_id) ==
    Orderings({GroupRepo(b[1], b[3]) : b \in {c \in RepoGroup : c[2] = group_id}})
\* seafile_api.get_org_group_repos: the shares of the group in organisation org_id
get_org_group_repos(org_id, group_id) ==
    Orderings({GroupRepo(b[2], b[4]) :
                  b \in {c \in OrgGroupRepo : c[1] = org_id /\ c[3] = group_id}})

\* list.sort(lambda x, y: cmp(y.last_modified, x.last_modified)): a stable
\* sort, latest first.  Insert puts x behind every element not older than x.
RECURSIVE Insert(_, _)
Insert(x, s) == IF s = <<>> THEN <<x>>
                ELSE IF s[1].last_modified < x.last_modified THEN <<x>> \o s
                ELSE <<s[1]>> \o Insert(x, Tail(s))
RECURSIVE SortAcc(_, _)
SortAcc(acc, s) == IF s = <<>> THEN acc ELSE SortAcc(Insert(s[1], acc), Tail(s))
\* a slip: the list is left in the order the service returned it
sort_skipped(s) == s
sort(s) == SortAcc(<<>>, s)

get_group_repo_info(group_repo) ==
    [repo_id |-> group_repo.repo_id,
     repo_name |-> group_repo.name,
     mtime |-> timestamp_to_isoformat_timestr(group_repo.last_modified),
     permission |-> group_repo.permission,
     size |-> group_repo.size,
     encrypted |-> group_repo.encrypted,
     owner_email |-> group_repo.user,
     owner_name |-> email2nickname(group_repo.user),
     owner_contact_name |-> email2contact_email(group_repo.user),
     modifier_email |-> group_repo.last_modifier,
     modifier_name |-> email2nickname(group_repo.last_modifier),
     modifier_contact_email |-> email2contact_email(group_repo.last_modifier)]

----------------------------------------------------------------------------
(* Requests and responses *)

NoData == <<>>
\* what a handler leaves in response: the request, the Repository Service
\* calls made while serving it (<<name, org_id, group_id>>), and the outcome
Served(op, username, group_id, repo_id, data, can_add, calls, reported, st, msg, body) ==
    [op |-> op, username |-> username, group_id |-> group_id, repo_id |-> repo_id,
     data |-> data, can_add_repo |-> can_add, calls |-> calls, reported |-> reported,
     status |-> st, error_msg |-> msg, body |-> body]

\* api_error(status, error_msg)
api_error(op, username, group_id, repo_id, data, can_add, st, msg) ==
    Served(op, username, group_id, repo_id, data, can_add, <<>>, <<>>, st, msg, <<>>)

\* an exception of the Repository Service leaves the handler uncaught
Fault == 500

\* api_check_group: the group must exist, or the handler is not entered
api_check_group(group_id) == group_id \in Groups

----------------------------------------------------------------------------
(* GroupLibraries.get *)

\* a slip: the check asks for a group admin instead of a group member
get_denied_unless_admin(username, group_id) == ~is_group_admin(group_id, username)
\* line 69: only a group member can get the group libraries
get_denied(username, group_id) == ~is_group_member(group_id, username)

\* lines 79-84: the list sorted, then projected record by record
get_result(group_repos) ==
    [i \in 1..Len(group_repos) |-> get_group_repo_info(sort(group_repos)[i])]

get(username, group_id) ==
    /\ UNCHANGED <<group_members, group_admins, ENABLE_ENCRYPTED_LIBRARY, repos,
                   RepoGroup, OrgGroupRepo, ExtraGroupsSharePermission,
                   repo_admins, created, repo_created, perm_audit_msgs>>
    /\ IF ~api_check_group(group_id)
       THEN response' = api_error("get", username, group_id, None, NoData, FALSE,
                                  404, "Group not found.")
       ELSE IF get_denied(username, group_id)
       THEN response' = api_error("get", username, group_id, None, NoData, FALSE,
                                  403, "Permission denied.")
       ELSE IF is_org_context(username)
       THEN \E group_repos \in get_org_group_repos(UserOrg[username], group_id) :
               response' = Served("get", username, group_id, None, NoData, FALSE,
                                  <<<<"get_org_group_repos", UserOrg[username], group_id>>>>,
                                  group_repos, 200, "",
                                  get_result(group_repos))
       ELSE \E group_repos \in get_repos_by_group(group_id) :
               response' = Served("get", username, group_id, None, NoData, FALSE,
                                  <<<<"get_repos_by_group", -1, group_id>>>>,
                                  group_repos, 200, "",
                                  get_result(group_repos))

----------------------------------------------------------------------------
(* Repository Service calls that change state *)

\* seafile_api.create_repo / create_org_repo: a new repository owned by username
NewRepo(repo_name, username, password, now) ==
    [name |-> repo_name, owner |-> username, last_modifier |-> username,
     last_modified |-> now, size |-> 0, encrypted |-> (password \notin {None, ""}),
     origin_repo_id |-> None, origin_path |-> None]
create_repo(rs, repo_id, repo_name, username, password, now) ==
    rs @@ (repo_id :> NewRepo(repo_name, username, password, now))

\* seafile_api.set_group_repo
set_group_repo(tbl, repo_id, group_id, permission) ==
    tbl \cup {<<repo_id, group_id, permission>>}
\* seafile_api.add_org_group_repo
add_org_group_repo(tbl, repo_id, org_id, group_id, permission) ==
    tbl \cup {<<org_id, repo_id, group_id, permission>>}
\* seafile_api.unset_group_repo
unset_group_repo(tbl, repo_id, group_id) ==
    {b \in tbl : ~(b[1] = repo_id /\ b[2] = group_id)}
\* seaserv.del_org_group_repo
del_org_group_repo(tbl, repo_id, org_id, group_id) ==
    {b \in tbl : ~(b[1] = org_id /\ b[2] = repo_id /\ b[3] = group_id)}
\* ExtraGroupsSharePermission.objects.delete_share_permission: removes the
\* row when there is one, does nothing otherwise
delete_share_permission(rows, repo_id, group_id) == rows \ {<<repo_id, group_id>>}

\* a repository that is removed from the service takes its shares with it
remove_repo(rs, repo_id) == [r \in DOMAIN rs \ {repo_id} |-> rs[r]]

----------------------------------------------------------------------------
(* GroupLibraries.post *)

\* the response body built from the created repository (lines 151-170)
post_repo_info(repo_id, repo, permission, username) ==
    [repo_id |-> repo_id,
     repo_name |-> repo.name,
     mtime |-> timestamp_to_isoformat_timestr(repo.last_modified),
     permission |-> permission,
     size |-> repo.size,
     encrypted |-> repo.encrypted,
     owner_email |-> username,
     owner_name |-> email2nickname(username),
     owner_contact_name |-> email2contact_email(username),
     modifier_email |-> repo.last_modifier,
     modifier_name |-> email2nickname(repo.last_modifier),
     modifier_contact_email |-> email2contact_email(repo.last_modifier)]

\* lines 142-148: repo_created.send
repo_created_send(sent, org_id, username, repo_id, data) ==
    Append(sent, [org_id |-> org_id, creator |-> username, repo_id |-> repo_id,
                  repo_name |-> data.repo_name,
                  library_template |-> DataGet(data, "library_template", "")])

\* the outcomes of the two service calls of a create: both return, the
\* creation raises, or the creation returns and the group share raises
PostOutcomes == {"ok", "create_raises", "share_raises"}

\* a slip: the signal is sent before the repository is shared to the group
post_signal_before_share(org_id, username, repo_id, data, outcome) ==
    IF outcome \in {"ok", "share_raises"}
    THEN repo_created_send(repo_created, org_id, username, repo_id, data)
    ELSE repo_created
\* lines 133-148: the signal is sent once the group share call has returned
post_signal(org_id, username, repo_id, data, outcome) ==
    IF outcome = "ok"
    THEN repo_created_send(repo_created, org_id, username, repo_id, data)
    ELSE repo_created

\* lines 123-170, entered once validation and authorization have passed
post_create(username, group_id, data, can_add, outcome) ==
    LET repo_name == data.repo_name
        password == DataGet(data, "password", None)
        permission == DataGet(data, "permission", "rw")
        org == is_org_context(username)
        org_id == IF org THEN UserOrg[username] ELSE -1
        repo_id == NewRepoId(created + 1)
        now == Clock(created)
        create_call == IF org THEN <<"create_org_repo", org_id, group_id>>
                       ELSE <<"create_repo", -1, group_id>>
        share_call == IF org THEN <<"add_org_group_repo", org_id, group_id>>
                      ELSE <<"set_group_repo", -1, group_id>>
        repos1 == create_repo(repos, repo_id, repo_name, username, password, now)
    IN
    IF outcome = "create_raises"
    THEN /\ response' = Served("post", username, group_id, None, data, can_add,
                               <<create_call>>, <<>>, Fault, "create_repo", <<>>)
         /\ UNCHANGED <<repos, RepoGroup, OrgGroupRepo, created, repo_created>>
    ELSE /\ repos' = repos1
         /\ created' = created + 1
         /\ repo_created' = post_signal(org_id, username, repo_id, data, outcome)
         /\ IF outcome = "share_raises"
            THEN /\ response' = Served("post", username, group_id, repo_id, data, can_add,
                                       <<create_call, share_call>>, <<>>,
                                       Fault, "set_group_repo", <<>>)
                 /\ UNCHANGED <<RepoGroup, OrgGroupRepo>>
            ELSE /\ IF org
                    THEN /\ OrgGroupRepo' = add_org_group_repo(OrgGroupRepo, repo_id, org_id,
                                                               group_id, permission)
                         /\ UNCHANGED RepoGroup
                    ELSE /\ RepoGroup' = set_group_repo(RepoGroup, repo_id, group_id,
                                                        permission)
                         /\ UNCHANGED OrgGroupRepo
                 /\ response' = Served("post", username, group_id, repo_id, data, can_add,
                                       <<create_call, share_call, <<"get_repo", -1, group_id>>>>,
                                       <<>>, 200, "",
                                       <<post_repo_info(repo_id, repos1[repo_id],
                                                        permission, username)>>)

\* lines 98-100: repo_name missing, empty or not a valid name
repo_name_invalid(data) ==
    \/ "repo_name" \notin DOMAIN data
    \/ data.repo_name = <<>>
    \/ ~is_valid_dirent_name(data.repo_name)
\* a slip: the flag is read the wrong way round
password_refused_flag_inverted(data) ==
    /\ DataGet(data, "password", None) \notin {None, ""}
    /\ ENABLE_ENCRYPTED_LIBRARY
\* lines 104-105: a password while encrypted libraries are switched off
password_refused(data) ==
    /\ DataGet(data, "password", None) \notin {None, ""}
    /\ ~ENABLE_ENCRYPTED_LIBRARY
\* a slip: "admin" is accepted, as it is when a library is shared to a group
permission_invalid_admin_allowed(data) ==
    DataGet(data, "permission", "rw") \notin {"r", "rw", "admin"}
\* lines 109-110
permission_invalid(data) == DataGet(data, "permission", "rw") \notin {"r", "rw"}

post(username, group_id, data, can_add) ==
    /\ UNCHANGED <<group_members, group_admins, ENABLE_ENCRYPTED_LIBRARY,
                   ExtraGroupsSharePermission, repo_admins, perm_audit_msgs>>
    /\ LET err(st, msg) ==
               /\ response' = api_error("post", username, group_id, None, data, can_add,
                                        st, msg)
               /\ UNCHANGED <<repos, RepoGroup, OrgGroupRepo, created, repo_created>>
       IN
       IF ~api_check_group(group_id) THEN err(404, "Group not found.")
       ELSE IF repo_name_invalid(data)
       THEN err(400, "repo_name invalid.")
       ELSE IF password_refused(data)
       THEN err(403, "NOT allow to create encrypted library.")
       ELSE IF permission_invalid(data)
       THEN err(400, "permission invalid.")
       ELSE IF ~can_add
       THEN err(403, "Permission denied.")
       ELSE IF ~is_group_member(group_id, username)
       THEN err(403, "Permission denied.")
       ELSE \E outcome \in PostOutcomes :
               post_create(username, group_id, data, can_add, outcome)

----------------------------------------------------------------------------
(* GroupLibrary.delete *)

\* a slip: the owner of the repository is not considered
delete_denied_owner_ignored(username, group_id, repo_id) ==
    /\ ~is_group_admin(group_id, username)
    /\ ~is_repo_admin(username, repo_id)
\* lines 197-199: neither group admin, nor repo owner, nor repo admin
delete_denied(username, group_id, repo_id) ==
    /\ ~is_group_admin(group_id, username)
    /\ get_repo_owner(repos, repo_id) # username
    /\ ~is_repo_admin(username, repo_id)

\* lines 203-208: the binding is removed from the table of the group's kind
unshare_RepoGroup(group_id, repo_id) ==
    IF is_org_group(group_id) THEN RepoGroup
    ELSE unset_group_repo(RepoGroup, repo_id, group_id)
unshare_OrgGroupRepo(group_id, repo_id) ==
    IF is_org_group(group_id)
    THEN del_org_group_repo(OrgGroupRepo, repo_id, get_org_id_by_group(group_id), group_id)
    ELSE OrgGroupRepo
\* a slip: the row of the extra table is left behind
delete_extra_share_permission_skipped(repo_id, group_id) == ExtraGroupsSharePermission
\* line 211: delete extra share permission
delete_extra_share_permission(repo_id, group_id) ==
    delete_share_permission(ExtraGroupsSharePermission, repo_id, group_id)
\* lines 213-219: the audit message names the origin of the repository
audit_msg(username, group_id, repo_id, repo) ==
    <<"delete-repo-perm", username, group_id,
      IF repo.origin_repo_id # None THEN repo.origin_repo_id ELSE repo_id,
      IF repo.origin_path # None THEN repo.origin_path ELSE "/",
      "">>

\* the outcomes of the service calls of a delete: all return, the unshare
\* call raises, or the repository no longer resolves when it is fetched again
DeleteOutcomes == {"ok", "unshare_raises", "repo_gone"}

\* lines 203-221, entered once the checks have passed
delete_unshare(username, group_id, repo_id, outcome) ==
    LET org == is_org_group(group_id)
        org_id == IF org THEN get_org_id_by_group(group_id) ELSE -1
        unshare_call == IF org THEN <<"del_org_group_repo", org_id, group_id>>
                        ELSE <<"unset_group_repo", -1, group_id>>
        RepoGroup1 == unshare_RepoGroup(group_id, repo_id)
        OrgGroupRepo1 == unshare_OrgGroupRepo(group_id, repo_id)
        Extra1 == delete_extra_share_permission(repo_id, group_id)
    IN
    CASE outcome = "unshare_raises" ->
           /\ response' = Served("delete", username, group_id, repo_id, NoData, FALSE,
                                 <<unshare_call>>, <<>>, Fault, "unset_group_repo", <<>>)
           /\ UNCHANGED <<repos, RepoGroup, OrgGroupRepo, ExtraGroupsSharePermission,
                          perm_audit_msgs>>
      [] outcome = "repo_gone" ->
           /\ repos' = remove_repo(repos, repo_id)
           /\ RepoGroup' = {b \in RepoGroup1 : b[1] # repo_id}
           /\ OrgGroupRepo' = {b \in OrgGroupRepo1 : b[2] # repo_id}
           /\ ExtraGroupsSharePermission' = {x \in Extra1 : x[1] # repo_id}
           /\ response' = Served("delete", username, group_id, repo_id, NoData, FALSE,
                                 <<unshare_call, <<"delete_share_permission", -1, group_id>>,
                                   <<"get_repo", -1, group_id>>>>,
                                 <<>>, Fault, "get_repo", <<>>)
           /\ UNCHANGED perm_audit_msgs
      [] outcome = "ok" ->
           /\ RepoGroup' = RepoGroup1
           /\ OrgGroupRepo' = OrgGroupRepo1
           /\ ExtraGroupsSharePermission' = Extra1
           /\ perm_audit_msgs' = Append(perm_audit_msgs,
                  audit_msg(username, group_id, repo_id, repos[repo_id]))
           /\ response' = Served("delete", username, group_id, repo_id, NoData, FALSE,
                                 <<unshare_call, <<"delete_share_permission", -1, group_id>>,
                                   <<"get_repo", -1, group_id>>,
                                   <<"send_perm_audit_msg", -1, group_id>>>>,
                                 <<>>, 200, "", <<[success |-> TRUE]>>)
           /\ UNCHANGED repos

\* a slip: the row of the extra table is deleted before the permission check
delete_row_before_check(username, group_id, repo_id) ==
    /\ UNCHANGED <<group_members, group_admins, ENABLE_ENCRYPTED_LIBRARY,
                   repo_admins, created, repo_created>>
    /\ IF ~api_check_group(group_id) \/ get_repo(repos, repo_id) = <<>>
       THEN /\ response' = api_error("delete", username, group_id, repo_id, NoData,
                                     FALSE, 404, "not found.")
            /\ UNCHANGED <<repos, RepoGroup, OrgGroupRepo, ExtraGroupsSharePermission,
                           perm_audit_msgs>>
       ELSE IF delete_denied(username, group_id, repo_id)
       THEN /\ response' = api_error("delete", username, group_id, repo_id, NoData,
                                     FALSE, 403, "Permission denied.")
            /\ ExtraGroupsSharePermission' =
                   delete_extra_share_permission(repo_id, group_id)
            /\ UNCHANGED <<repos, RepoGroup, OrgGroupRepo, perm_audit_msgs>>
       ELSE \E outcome \in DeleteOutcomes :
               delete_unshare(username, group_id, repo_id, outcome)

delete(username, group_id, repo_id) ==
    /\ UNCHANGED <<group_members, group_admins, ENABLE_ENCRYPTED_LIBRARY,
                   repo_admins, created, repo_created>>
    /\ LET err(st, msg) ==
               /\ response' = api_error("delete", username, group_id, repo_id, NoData,
                                        FALSE, st, msg)
               /\ UNCHANGED <<repos, RepoGroup, OrgGroupRepo, ExtraGroupsSharePermission,
                              perm_audit_msgs>>
       IN
       IF ~api_check_group(group_id) THEN err(404, "Group not found.")
       ELSE IF get_repo(repos, repo_id) = <<>>
       THEN err(404, "Library not found.")
       ELSE IF delete_denied(username, group_id, repo_id)
       THEN err(403, "Permission denied.")
       ELSE \E outcome \in DeleteOutcomes :
                  delete_unshare(username, group_id, repo_id, outcome)

----------------------------------------------------------------------------
(* The system *)

InitRepos ==
    [r \in InitRepoIds |->
        CASE r = "r1" -> [name |-> <<"A">>, owner |-> "alice", last_modifier |-> "bob",
                          last_modified |-> 1, size |-> 10, encrypted |-> FALSE,
                          origin_repo_id |-> None, origin_path |-> None]
          [] r = "r2" -> [name |-> <<"B">>, owner |-> "bob", last_modifier |-> "bob",
                          last_modified |-> 3, size |-> 20, encrypted |-> TRUE,
                          origin_repo_id |-> None, origin_path |-> None]
          [] r = "r3" -> [name |-> <<"s">>, owner |-> "alice", last_modifier |-> "alice",
                          last_modified |-> 2, size |-> 5, encrypted |-> FALSE,
                          origin_repo_id |-> "r1", origin_path |-> "/s"]]

Init ==
    /\ group_admins = [g \in Groups |-> IF g = 1 THEN {"alice"} ELSE {"bob"}]
    /\ group_members \in [Groups -> SUBSET Users]
    /\ \A g \in Groups : group_admins[g] \subseteq group_members[g]
    /\ ENABLE_ENCRYPTED_LIBRARY \in BOOLEAN
    /\ repos = InitRepos
    /\ RepoGroup = {<<"r1", 1, "rw">>, <<"r2", 1, "r">>, <<"r3", 1, "rw">>}
    /\ OrgGroupRepo = {<<7, "r2", 2, "rw">>, <<7, "r3", 2, "r">>}
    /\ ExtraGroupsSharePermission = {<<"r3", 1>>, <<"r2", 2>>}
    /\ repo_admins = {<<"bob", "r3">>}
    /\ created = 0
    /\ served = 0
    /\ repo_created = <<>>
    /\ perm_audit_msgs = <<>>
    /\ response = api_error("none", "alice", 1, None, NoData, FALSE, 0, "")

\* the requests sent: every combination for the groups that exist, and one
\* request of every user for the group that does not
PostRequests ==
    [username : Users, group_id : Groups, data : PostData, can_add_repo : BOOLEAN] \cup
    [username : Users, group_id : GroupIds \ Groups,
     data : {d \in PostData : DOMAIN d = {"repo_name"} /\ d.repo_name = <<"N">>},
     can_add_repo : {TRUE}]
DeleteRequests ==
    [username : Users, group_id : Groups, repo_id : RepoIdInputs] \cup
    [username : Users, group_id : GroupIds \ Groups, repo_id : {"r1"}]

\* one more request is accepted and served
Serve == served < MaxRequests /\ served' = served + 1

Get == /\ Serve
       /\ \E username \in Users, group_id \in GroupIds : get(username, group_id)
Post == /\ Serve
        /\ \E req \in PostRequests :
              post(req.username, req.group_id, req.data, req.can_add_repo)
Delete == /\ Serve
          /\ \E req \in DeleteRequests : delete(req.username, req.group_id, req.repo_id)

Next == Get \/ Post \/ Delete

Spec == Init /\ [][Next]_vars

----------------------------------------------------------------------------
(* Properties of the list operation *)

IsGet == response.op = "get" /\ response.group_id \in Groups
Count(seq, repo_id) == Cardinality({i \in 1..Len(seq) : seq[i].repo_id = repo_id})

C2_ListSortedAndComplete ==
    (IsGet /\ response.status = 200) =>
        /\ \A i, j \in 1..Len(response.body) :
               i < j => IsoGeq(response.body[i].mtime, response.body[j].mtime)
        /\ Len(response.body) = Len(response.reported)
        /\ \A k \in 1..Len(response.reported) :
               /\ Count(response.body, response.reported[k].repo_id) = 1
               /\ get_group_repo_info(response.reported[k]) \in
                      {response.body[i] : i \in 1..Len(response.body)}
        /\ \A i \in 1..Len(response.body) :
               Count(response.reported, response.body[i].repo_id) = 1

\* C2 witness: a list of three libraries that the service reported oldest first.
C2_Witness ==
    /\ IsGet
    /\ response.status = 200
    /\ Len(response.body) = 3
    /\ response.reported[1].last_modified < response.reported[2].last_modified
    /\ response.reported[2].last_modified < response.reported[3].last_modified
    /\ response.body[1].repo_id = response.reported[3].repo_id

----------------------------------------------------------------------------
(* Properties of the create operation *)

IsPost == response.op = "post" /\ response.group_id \in Groups
HasPassword == DataGet(response.data, "password", None) \notin {None, ""}
AsksAdmin == DataGet(response.data, "permission", "rw") = "admin"
FeatureDisabled ==
    /\ response.status = 403
    /\ response.error_msg = "NOT allow to create encrypted library."

\* C3 as stated: every create with a non-empty password while the flag is off
\* fails with FeatureDisabled.
C3_Original ==
    (IsPost /\ HasPassword /\ ~ENABLE_ENCRYPTED_LIBRARY) => FeatureDisabled

\* C3 amended: every create with a valid repo name and a non-empty password
\* while the flag is off fails with FeatureDisabled, whatever the permission
\* value, the can-add-repo capability and the membership of the caller; with
\* a missing or invalid repo name the request fails with 400 before that.
C3_PasswordRefusedWhenNameValid ==
    (IsPost /\ HasPassword /\ ~ENABLE_ENCRYPTED_LIBRARY) =>
        IF repo_name_invalid(response.data)
        THEN response.status = 400 /\ response.error_msg = "repo_name invalid."
        ELSE FeatureDisabled

\* C3 witness: FeatureDisabled is answered to a caller who is no member, lacks
\* can-add-repo and asks for an invalid permission.
C3_Witness ==
    /\ IsPost
    /\ FeatureDisabled
    /\ ~response.can_add_repo
    /\ response.username \notin group_members[response.group_id]
    /\ AsksAdmin

\* C4 as stated: a create with permission "admin" always fails with 400, and a
\* permission of "r" or "rw" (or none) is never refused as invalid.
C4_Original ==
    IsPost =>
        /\ AsksAdmin => response.status = 400
        /\ ~AsksAdmin => response.error_msg # "permission invalid."

\* C4 amended: a create with permission "admin" never succeeds: it fails with
\* 400, except that with a valid repo name and a non-empty password while the
\* flag is off it fails with 403 FeatureDisabled, which is checked first; a
\* permission of "r" or "rw" (or none) is never refused as invalid.
C4_AdminPermissionRefused ==
    IsPost =>
        /\ AsksAdmin =>
               IF ~repo_name_invalid(response.data) /\ HasPassword
                  /\ ~ENABLE_ENCRYPTED_LIBRARY
               THEN FeatureDisabled
               ELSE response.status = 400
        /\ (AsksAdmin /\ ~repo_name_invalid(response.data) /\ ~HasPassword) =>
               response.error_msg = "permission invalid."
        /\ ~AsksAdmin => response.error_msg # "permission invalid."

\* C4 witness: "permission invalid." is answered to a member with can-add-repo.
C4_Witness ==
    /\ IsPost
    /\ AsksAdmin
    /\ response.status = 400
    /\ response.error_msg = "permission invalid."
    /\ response.can_add_repo
    /\ response.username \in group_members[response.group_id]

----------------------------------------------------------------------------
(* Properties of the delete operation and of the side effects *)

IsDelete == response.op = "delete" /\ response.group_id \in Groups
ErrorStatus == {400, 403, 404}
Bound(repo_id, group_id) ==
    \/ \E b \in RepoGroup : b[1] = repo_id /\ b[2] = group_id
    \/ \E b \in OrgGroupRepo : b[2] = repo_id /\ b[3] = group_id

C6_ErrorsChangeNothing ==
    [][(response'.op \in {"post", "delete"} /\ response'.status \in ErrorStatus) =>
          UNCHANGED <<repos, RepoGroup, OrgGroupRepo, ExtraGroupsSharePermission,
                      created, repo_created, perm_audit_msgs>>]_vars

\* C6 witness: a delete was refused after a repository had been created, and
\* the rows and the created repository are still there.
C6_Witness ==
    /\ IsDelete
    /\ response.status \in ErrorStatus
    /\ created = 1
    /\ Len(repo_created) = 1
    /\ ExtraGroupsSharePermission = {<<"r3", 1>>, <<"r2", 2>>}

OrgCalls == {"get_org_group_repos", "create_org_repo", "add_org_group_repo",
             "del_org_group_repo"}
GlobalCalls == {"get_repos_by_group", "create_repo", "set_group_repo",
                "unset_group_repo"}

\* C8: every operation uses the organisation calls, with the organisation of
\* the group, on a group of an organisation and the global calls on any other
\* group.
C8_VariantFollowsGroup ==
    (response.op \in {"get", "post", "delete"} /\ response.group_id \in Groups) =>
        \A i \in 1..Len(response.calls) :
            /\ response.calls[i][1] \in OrgCalls =>
                   /\ GroupOrg[response.group_id] # -1
                   /\ response.calls[i][2] = GroupOrg[response.group_id]
            /\ response.calls[i][1] \in GlobalCalls =>
                   GroupOrg[response.group_id] = -1

\* C9: when the creation returns and the group share call raises, the request
\* ends in a fault, the new repository stays in the service bound to no group
\* and no repo_created signal is sent for it; a repo_created signal is only
\* sent for a repository just created and bound to the group of the request.
C9_NoRollback ==
    [][/\ (response'.op = "post" /\ response'.status = Fault
              /\ response'.error_msg = "set_group_repo") =>
             /\ response'.repo_id \notin DOMAIN repos
             /\ response'.repo_id \in DOMAIN repos'
             /\ \A b \in RepoGroup' : b[1] # response'.repo_id
             /\ \A b \in OrgGroupRepo' : b[2] # response'.repo_id
             /\ repo_created' = repo_created
       /\ repo_created' # repo_created =>
             /\ Len(repo_created') = Len(repo_created) + 1
             /\ SubSeq(repo_created', 1, Len(repo_created)) = repo_created
             /\ response'.op = "post" /\ response'.status = 200
             /\ repo_created'[Len(repo_created')].repo_id = response'.repo_id
             /\ response'.repo_id \notin DOMAIN repos
             /\ response'.repo_id \in DOMAIN repos'
             /\ \/ \E b \in RepoGroup' :
                      b[1] = response'.repo_id /\ b[2] = response'.group_id
                \/ \E b \in OrgGroupRepo' :
                      b[2] = response'.repo_id /\ b[3] = response'.group_id]_vars

\* C9 witness: a create ended in a fault of the group share call and left its
\* repository behind, bound to no group and not signalled.
C9_Witness ==
    /\ IsPost
    /\ response.status = Fault
    /\ response.error_msg = "set_group_repo"
    /\ response.repo_id \in DOMAIN repos
    /\ \A g \in Groups : ~Bound(response.repo_id, g)
    /\ repo_created = <<>>

\* C10: every delete that passes the existence and authorization checks and
\* has unbound the library from the group goes on to delete the row, fetch the
\* repository again and send exactly one "delete-repo-perm" audit message with
\* the actor, the group id, the origin repo id (the repo id itself without an
\* origin), the origin path ("/" without one) and an empty detail, and then
\* answers with the acknowledgment.
C10_DeleteAlwaysAudits ==
    [][(response'.op = "delete" /\ response'.group_id \in Groups
            /\ response'.repo_id \in DOMAIN repos
            /\ Len(response'.calls) >= 2
            /\ ~(/\ response'.username \notin group_admins[response'.group_id]
                 /\ repos[response'.repo_id].owner # response'.username
                 /\ <<response'.username, response'.repo_id>> \notin repo_admins)) =>
          /\ response'.status = 200
          /\ response'.body = <<[success |-> TRUE]>>
          /\ Len(response'.calls) = 4
          /\ response'.calls[1][1] \in {"unset_group_repo", "del_org_group_repo"}
          /\ response'.calls[2][1] = "delete_share_permission"
          /\ response'.calls[3][1] = "get_repo"
          /\ response'.calls[4][1] = "send_perm_audit_msg"
          /\ perm_audit_msgs' = Append(perm_audit_msgs,
                 <<"delete-repo-perm", response'.username, response'.group_id,
                   IF repos[response'.repo_id].origin_repo_id # None
                   THEN repos[response'.repo_id].origin_repo_id
                   ELSE response'.repo_id,
                   IF repos[response'.repo_id].origin_path # None
                   THEN repos[response'.repo_id].origin_path
                   ELSE "/",
                   "">>)]_vars

====
